---- MODULE Spec2Model ----
(***************************************************************************)
(* Model of iota-conversion/trytes_converter.rs: the character table, the  *)
(* encoder to_trytes and the decoder to_string.                            *)
(*                                                                         *)
(* A string is a sequence of Unicode code points (naturals); its byte      *)
(* length is the sum of the UTF-8 widths of its characters, as str::len()  *)
(* measures it.  A call returns a record                                   *)
(*   [tag |-> "Ok" | "Err" | "Panic", kind |-> error variant, string]      *)
(* where "Panic" is the abort of the thread (slice or index out of range). *)
(***************************************************************************)
EXTENDS Integers, Sequences, FiniteSets, TLC

VARIABLES input, pc, result, tmp_ascii, back, extra

vars == <<input, pc, result, tmp_ascii, back, extra>>

\* Longest sampled input string.
MaxLen == 4

----------------------------------------------------------------------------
(* Result values *)

Ok(s) == [tag |-> "Ok", kind |-> "", string |-> s]

Err(k, s) == [tag |-> "Err", kind |-> k, string |-> s]

Panic == [tag |-> "Panic", kind |-> "", string |-> <<>>]

NoResult == [tag |-> "None", kind |-> "", string |-> <<>>]

StringNotAscii == "StringNotAscii"

StringNotTrytes == "StringNotTrytes"

\* Option::None of a usize index
None == -1

----------------------------------------------------------------------------
(* The alphabet (iota_constants::TRYTE_ALPHABET): "9ABCDEFGHIJKLMNOPQRSTUVWXYZ" *)

TRYTE_ALPHABET ==
    <<57, 65, 66, 67, 68, 69, 70, 71, 72, 73, 74, 75, 76, 77,
      78, 79, 80, 81, 82, 83, 84, 85, 86, 87, 88, 89, 90>>

\* TRYTE_ALPHABET[i] with the code's 0-based index
AlphabetAt(i) == TRYTE_ALPHABET[i + 1]

----------------------------------------------------------------------------
(* The character tables *)

\* The characters of the string literal iterated by the table constructor:
\* space .. '~' in ascending order.
PrintableLiteral == [i \in 1..95 |-> 31 + i]

\* HashMap::insert: add or overwrite
Insert(m, k, v) == (k :> v) @@ m

\* The for loop over lit.chars(): the k-th character is inserted with ordinal
\* ascii + (k - 1); a later insert of the same character overwrites.
InsertAll(res, lit, ascii) ==
    [c \in (DOMAIN res) \cup {lit[k] : k \in 1..Len(lit)} |->
        IF \E k \in 1..Len(lit) : lit[k] = c
        THEN ascii + (CHOOSE k \in 1..Len(lit) :
                        /\ lit[k] = c
                        /\ \A j \in (k + 1)..Len(lit) : lit[j] # c) - 1
        ELSE res[c]]

\* Mutant: the printable characters are numbered from 0 instead of 32.
CHAR_TO_ASCII_MAP_FromZero == InsertAll(Insert(<<>>, 10, 10), PrintableLiteral, 0)

CHAR_TO_ASCII_MAP == InsertAll(Insert(<<>>, 10, 10), PrintableLiteral, 32)

\* Mutant: the inverse table is built from the printable characters only.
ASCII_TO_CHAR_MAP_NoNewline ==
    [o \in {CHAR_TO_ASCII_MAP[c] : c \in (DOMAIN CHAR_TO_ASCII_MAP) \ {10}}
        |-> CHOOSE c \in DOMAIN CHAR_TO_ASCII_MAP : CHAR_TO_ASCII_MAP[c] = o]

\* The inverse table: one entry per (key, val) of CHAR_TO_ASCII_MAP.
ASCII_TO_CHAR_MAP ==
    LET vals == {CHAR_TO_ASCII_MAP[c] : c \in DOMAIN CHAR_TO_ASCII_MAP}
    IN  [o \in vals |-> CHOOSE c \in DOMAIN CHAR_TO_ASCII_MAP : CHAR_TO_ASCII_MAP[c] = o]

----------------------------------------------------------------------------
(* to_trytes *)

\* The first loop: look every character up, stop at the first unknown one.
\* Returns the ordinals collected and whether the loop ran to the end.
RECURSIVE CollectAscii(_, _, _)
CollectAscii(s, k, acc) ==
    IF k > Len(s) THEN [done |-> TRUE, ascii |-> acc]
    ELSE IF s[k] \in DOMAIN CHAR_TO_ASCII_MAP
         THEN CollectAscii(s, k + 1, Append(acc, CHAR_TO_ASCII_MAP[s[k]]))
         ELSE [done |-> FALSE, ascii |-> acc]

Clamp(byte) == IF byte > 255 THEN 32 ELSE byte

FirstDigit(ascii) == ascii % 27

SecondDigit(ascii) == (ascii - FirstDigit(ascii)) \div 27

\* Mutant: high digit pushed before the low digit.
EncodeByteHighFirst(byte) ==
    <<AlphabetAt(SecondDigit(Clamp(byte))), AlphabetAt(FirstDigit(Clamp(byte)))>>

\* Mutant: a zero high digit is not pushed.
EncodeByteNoZero(byte) ==
    IF SecondDigit(Clamp(byte)) = 0
    THEN <<AlphabetAt(FirstDigit(Clamp(byte)))>>
    ELSE <<AlphabetAt(FirstDigit(Clamp(byte))), AlphabetAt(SecondDigit(Clamp(byte)))>>

\* The body of the second loop: the two symbols pushed for one ordinal.
EncodeByte(byte) ==
    <<AlphabetAt(FirstDigit(Clamp(byte))), AlphabetAt(SecondDigit(Clamp(byte)))>>

RECURSIVE EncodeAll(_, _, _)
EncodeAll(bytes, k, trytes) ==
    IF k > Len(bytes) THEN trytes
    ELSE EncodeAll(bytes, k + 1, trytes \o EncodeByte(bytes[k]))

\* Mutant: unknown characters are skipped instead of rejected.
to_trytes_skipping(s) ==
    Ok(EncodeAll([i \in 1..Len(SelectSeq(s, LAMBDA c : c \in DOMAIN CHAR_TO_ASCII_MAP))
                    |-> CHAR_TO_ASCII_MAP[SelectSeq(s, LAMBDA c : c \in DOMAIN CHAR_TO_ASCII_MAP)[i]]],
                 1, <<>>))

to_trytes(s) ==
    LET col == CollectAscii(s, 1, <<>>)
    IN  IF col.done THEN Ok(EncodeAll(col.ascii, 1, <<>>))
        ELSE Err(StringNotAscii, s)

----------------------------------------------------------------------------
(* to_string *)

\* char::len_utf8
len_utf8(c) == IF c < 128 THEN 1 ELSE IF c < 2048 THEN 2 ELSE IF c < 65536 THEN 3 ELSE 4

\* str::len: the length in bytes
RECURSIVE ByteLen(_)
ByteLen(s) == IF s = <<>> THEN 0 ELSE len_utf8(Head(s)) + ByteLen(Tail(s))

\* str::is_char_boundary
is_char_boundary(s, idx) == \E k \in 0..Len(s) : ByteLen(SubSeq(s, 1, k)) = idx

\* &s[..idx] for idx on a character boundary
SliceTo(s, idx) == SubSeq(s, 1, CHOOSE k \in 0..Len(s) : ByteLen(SubSeq(s, 1, k)) = idx)

\* Mutant: a symbol that is not found counts as index 0.
positionOrZero(x) ==
    IF \E i \in 1..Len(TRYTE_ALPHABET) : TRYTE_ALPHABET[i] = x
    THEN (CHOOSE i \in 1..Len(TRYTE_ALPHABET) :
             /\ TRYTE_ALPHABET[i] = x
             /\ \A j \in 1..(i - 1) : TRYTE_ALPHABET[j] # x) - 1
    ELSE 0

\* TRYTE_ALPHABET.iter().position(|&x| x == letter): 0-based index or None
position(x) ==
    IF \E i \in 1..Len(TRYTE_ALPHABET) : TRYTE_ALPHABET[i] = x
    THEN (CHOOSE i \in 1..Len(TRYTE_ALPHABET) :
             /\ TRYTE_ALPHABET[i] = x
             /\ \A j \in 1..(i - 1) : TRYTE_ALPHABET[j] # x) - 1
    ELSE None

\* Mutant: standard positional order, first symbol is the high digit.
DecimalHighFirst(first, second) == first * 27 + second

Decimal(first, second) == first + second * 27

\* The loop over chars.chunks(2), from the chunk starting at index k (1-based).
RECURSIVE ChunkLoop(_, _, _)
ChunkLoop(input_trytes, k, tmp) ==
    IF k > Len(input_trytes) THEN Ok(tmp)
    ELSE LET letters == SubSeq(input_trytes, k,
                               IF k + 1 <= Len(input_trytes) THEN k + 1 ELSE k)
             first   == position(letters[1])
         IN  IF first = None THEN Err(StringNotTrytes, input_trytes)
             ELSE IF Len(letters) < 2 THEN Panic
             ELSE LET second == position(letters[2])
                  IN  IF second = None THEN Err(StringNotTrytes, input_trytes)
                      ELSE LET decimal == Decimal(first, second)
                           IN  IF decimal \in DOMAIN ASCII_TO_CHAR_MAP
                               THEN ChunkLoop(input_trytes, k + 2,
                                              Append(tmp, ASCII_TO_CHAR_MAP[decimal]))
                               ELSE ChunkLoop(input_trytes, k + 2, tmp)

to_string(s) ==
    IF ByteLen(s) % 2 # 0
    THEN IF is_char_boundary(s, ByteLen(s) - 1)
         THEN ChunkLoop(SliceTo(s, ByteLen(s) - 1), 1, <<>>)
         ELSE Panic
    ELSE ChunkLoop(s, 1, <<>>)

----------------------------------------------------------------------------
(* Inputs *)

\* newline, '9', 'A', 'J', 'Z', tab, e-acute (2 bytes), euro sign (3 bytes)
SampleChars == {10, 57, 65, 74, 90, 9, 233, 8364}

\* every 7-bit character and one character of each longer UTF-8 width
\* (e-acute, euro sign, an emoji)
AllChars == (0..127) \cup {233, 8364, 128512}

AlphabetSet == {TRYTE_ALPHABET[i] : i \in 1..Len(TRYTE_ALPHABET)}

SeqsUpTo(S, n) == UNION {[1..m -> S] : m \in 0..n}

\* The literal strings of the unit tests
TestVectors ==
    { <<90>>, <<10>>, <<74, 79, 84, 65, 32, 74, 79, 84, 65>>,
      <<73, 67>>, <<74, 57>>,
      <<84, 66, 89, 66, 67, 67, 75, 66, 69, 65, 84, 66, 89, 66, 67, 67, 75, 66>>,
      <<84, 66, 89, 66, 67, 67, 75, 66, 69, 65, 84, 66, 89, 66, 67, 67, 75, 66, 57>> }

Inputs ==
    SeqsUpTo(SampleChars, MaxLen) \cup SeqsUpTo(AllChars, 1)
        \cup [1..2 -> AlphabetSet] \cup TestVectors

----------------------------------------------------------------------------
(* The calls *)

Init ==
    /\ input \in Inputs
    /\ pc = "start"
    /\ result = NoResult
    /\ tmp_ascii = <<>>
    /\ back = NoResult
    /\ extra = None

\* to_trytes(input)
CallToTrytes ==
    /\ pc = "start"
    /\ result' = to_trytes(input)
    /\ tmp_ascii' = CollectAscii(input, 1, <<>>).ascii
    /\ pc' = "encoded"
    /\ UNCHANGED <<input, back, extra>>

\* to_string(&trytes) on the trytes just produced
ConvertBack ==
    /\ pc = "encoded"
    /\ result.tag = "Ok"
    /\ back' = to_string(result.string)
    /\ pc' = "roundtrip"
    /\ UNCHANGED <<input, result, tmp_ascii, extra>>

\* to_string(input)
CallToString ==
    /\ pc = "start"
    /\ result' = to_string(input)
    /\ pc' = "decoded"
    /\ UNCHANGED <<input, tmp_ascii, back, extra>>

\* to_string(input + x) after to_string(input)
CallToStringExtended ==
    /\ pc = "decoded"
    /\ \E x \in SampleChars :
          /\ extra' = x
          /\ back' = to_string(Append(input, x))
    /\ pc' = "extended"
    /\ UNCHANGED <<input, result, tmp_ascii>>

Next ==
    \/ CallToTrytes
    \/ ConvertBack
    \/ CallToString
    \/ CallToStringExtended

Spec == Init /\ [][Next]_vars

----------------------------------------------------------------------------
(* Vocabulary of the properties *)

\* newline or printable ASCII 0x20..0x7E
Supported(c) == c = 10 \/ (32 <= c /\ c <= 126)

AllSupported(s) == \A i \in 1..Len(s) : Supported(s[i])

InAlphabet(x) == x \in AlphabetSet

\* the ordinal the documentation assigns to a supported character
OrdinalOf(c) == IF c = 10 THEN 10 ELSE c

\* the index of an alphabet symbol
IndexOf(x) == CHOOSE i \in 0..26 : TRYTE_ALPHABET[i + 1] = x

SameOutcome(a, b) ==
    /\ a.tag = b.tag
    /\ a.tag = "Ok" => a.string = b.string
    /\ a.tag = "Err" => a.kind = b.kind

\* the text of the pairs of t whose ordinal has a character
RECURSIVE AssignedText(_)
AssignedText(t) ==
    IF Len(t) < 2 THEN <<>>
    ELSE LET o == IndexOf(t[1]) + 27 * IndexOf(t[2])
         IN  (IF Supported(o) THEN <<o>> ELSE <<>>) \o AssignedText(SubSeq(t, 3, Len(t)))

JOTA == <<74, 79, 84, 65, 32, 74, 79, 84, 65>>

JOTATrytes == <<84, 66, 89, 66, 67, 67, 75, 66, 69, 65, 84, 66, 89, 66, 67, 67, 75, 66>>

----------------------------------------------------------------------------
(* C1 *)

\* C1: for every string of supported characters, to_trytes succeeds, and
\* to_string of its output succeeds and returns exactly the string.
C1_RoundTrip ==
    AllSupported(input) =>
        /\ pc = "encoded" => result.tag = "Ok"
        /\ pc = "roundtrip" => back = Ok(input)

C1_Witness ==
    /\ pc = "roundtrip"
    /\ input = <<10, 90, 57, 74>>
    /\ back.tag = "Ok"

----------------------------------------------------------------------------
(* C2 *)

----------------------------------------------------------------------------
(* C3 *)

\* C3: for every t with an even number of symbols and every extra symbol x,
\* to_string(t + x) has the same outcome as to_string(t).
C3_OddTolerance ==
    (pc = "extended" /\ Len(input) % 2 = 0) => SameOutcome(back, result)

----------------------------------------------------------------------------
(* C4 *)

\* C4: an input with a character outside the supported set, wherever it
\* occurs, makes to_trytes fail with StringNotAscii carrying the whole input.
C4_Unsupported ==
    (pc = "encoded" /\ ~AllSupported(input))
        => result = Err(StringNotAscii, input)

C4_Witness ==
    /\ pc = "encoded"
    /\ input = <<65, 90, 9, 74>>
    /\ result.tag = "Err"

----------------------------------------------------------------------------
(* C5 *)

\* C5: a StringNotTrytes failure of to_string carries the input exactly as
\* the caller passed it.
C5_OriginalInput ==
    (pc = "decoded" /\ result.tag = "Err") => result.string = input

----------------------------------------------------------------------------
(* C6 *)

\* C6: for every string of supported characters, to_trytes succeeds with
\* exactly two symbols per character, all of them alphabet symbols.
C6_Length ==
    (pc = "encoded" /\ AllSupported(input))
        => /\ result.tag = "Ok"
           /\ Len(result.string) = 2 * Len(input)
           /\ \A j \in 1..Len(result.string) : InAlphabet(result.string[j])

C6_Witness ==
    /\ pc = "encoded"
    /\ input = <<10, 10, 90, 57>>
    /\ Len(result.string) = 8

----------------------------------------------------------------------------
(* C7 *)

\* C7: the character at position i with ordinal o is encoded as
\* Alphabet[o mod 27] at position 2i and Alphabet[o div 27] at position 2i+1
\* (0-based), so "Z" gives "IC", newline gives "J9" and "JOTA JOTA" gives
\* "TBYBCCKBEATBYBCCKB".
C7_DigitOrder ==
    (pc = "encoded" /\ AllSupported(input))
        => /\ result.tag = "Ok"
           /\ \A i \in 0..(Len(input) - 1) :
                 /\ 2 * i + 2 <= Len(result.string)
                 /\ result.string[2 * i + 1] = TRYTE_ALPHABET[(OrdinalOf(input[i + 1]) % 27) + 1]
                 /\ result.string[2 * i + 2] = TRYTE_ALPHABET[(OrdinalOf(input[i + 1]) \div 27) + 1]
           /\ input = <<90>> => result.string = <<73, 67>>
           /\ input = <<10>> => result.string = <<74, 57>>
           /\ input = JOTA => result.string = JOTATrytes

C7_Witness ==
    /\ pc = "encoded"
    /\ input = JOTA
    /\ result.tag = "Ok"

----------------------------------------------------------------------------
(* C8 *)

\* C8: for every even-length input of alphabet symbols, to_string succeeds
\* and returns, in pair order, the characters of the pairs whose ordinal
\* index(s1) + 27 * index(s2) has a character, and nothing for the others.
C8_LenientSkip ==
    (/\ pc = "decoded"
     /\ Len(input) % 2 = 0
     /\ \A i \in 1..Len(input) : InAlphabet(input[i]))
        => /\ result = Ok(AssignedText(input))
           /\ 2 * Len(result.string) <= Len(input)

C8_Witness ==
    /\ pc = "decoded"
    /\ input = <<90, 90, 74, 57>>
    /\ result = Ok(<<10>>)

----------------------------------------------------------------------------
(* C9 *)

\* C9 as stated: every ordinal looked up for a supported character lies in
\* [0, 94] and both its digits lie in [0, 26].
C9_UpTo94 ==
    (pc = "encoded" /\ AllSupported(input))
        => /\ Len(tmp_ascii) = Len(input)
           /\ \A i \in 1..Len(tmp_ascii) :
                 /\ tmp_ascii[i] \in 0..94
                 /\ FirstDigit(tmp_ascii[i]) \in 0..26
                 /\ SecondDigit(tmp_ascii[i]) \in 0..26

\* C9 amended: every supported character has an ordinal in [10, 126]
\* (newline 10, a printable character its code 32..126) and both digits of
\* the ordinal lie in [0, 26].
C9_UpTo126 ==
    (pc = "encoded" /\ AllSupported(input))
        => /\ Len(tmp_ascii) = Len(input)
           /\ \A i \in 1..Len(tmp_ascii) :
                 /\ tmp_ascii[i] = OrdinalOf(input[i])
                 /\ tmp_ascii[i] \in 10..126
                 /\ FirstDigit(tmp_ascii[i]) \in 0..26
                 /\ SecondDigit(tmp_ascii[i]) \in 0..26

C9_Witness ==
    /\ pc = "encoded"
    /\ input = <<126>>
    /\ tmp_ascii = <<126>>

----------------------------------------------------------------------------
(* C10 *)

\* C10: for every input string, to_string returns a success or a
\* StringNotTrytes failure and never aborts.
C10_Total ==
    pc = "decoded" =>
        \/ result.tag = "Ok"
        \/ result.tag = "Err" /\ result.kind = StringNotTrytes

====
